---- MODULE Spec2Model ----
(***************************************************************************)
(* Model of the dynamic RAG orchestrator of the claims-processing          *)
(* framework (dynamic_rag_orchestrator.py): the document-sufficiency       *)
(* evaluator DynamicRAGManager.should_create_rag and the tool functions    *)
(* create_dynamic_rag_engine, query_rag_engine and cleanup_expired_rags,   *)
(* run by concurrent callers against the external record store and the     *)
(* external vector collections.                                            *)
(*                                                                         *)
(* Sizes are in hundredths of a megabyte, time is in hours.                *)
(***************************************************************************)
EXTENDS Integers, Sequences, FiniteSets, TLC

(***************************************************************************)
(* Bounds of the model.                                                    *)
(***************************************************************************)
\* longest list of available documents of a claim in the evaluator's inputs
MaxDocs == 3
\* number of concurrent callers of the tool functions
NumCallers == 2
\* collections that may ever be created in one behaviour
MaxCollections == 2
\* the clock stops advancing at this hour
MaxTime == 25
\* hours between two readings of the clock
TickHours == 25
\* most chunks the text splitter returns for one document
MaxChunks == 1

(***************************************************************************)
(* Program constants.                                                      *)
(***************************************************************************)
\* self.rag_cleanup_hours
rag_cleanup_hours == 24
\* rag_trigger_thresholds["min_documents"]
min_documents == 3
\* rag_trigger_thresholds["min_document_types"]
min_document_types == 2
\* rag_trigger_thresholds["min_total_size_mb"] = 1.0, in hundredths of a MB
min_total_size_mb == 100
\* rag_trigger_thresholds["required_types"]
required_types == <<"police_report", "estimate", "photos">>
\* the literal 2 of "required_found < 2"
min_required_found == 2

\* a NULL document_type column of the record store (None in Python)
NULL == "NULL"
\* a numeric column is a sequence: empty for NULL, else its one value
NoSize == <<>>

(***************************************************************************)
(* Values.                                                                 *)
(***************************************************************************)
\* claim identifiers, as character sequences (str)
ClaimIds == { <<"c", "-", "1">>, <<"c", "_", "1">> }

Callers == 1..NumCallers

\* document_type column: the types of the data model, or NULL
DocTypes == {"police_report", "estimate", "photos", "medical_record", NULL}

\* document_size_mb column (hundredths of a MB), or NULL
DocSizes == {NoSize, <<32>>, <<34>>, <<50>>}

\* a row of claim_documents with processing_status = 'available'
DocRows == [document_type : DocTypes, document_size_mb : DocSizes]

RECURSIVE SeqsUpTo(_, _)
SeqsUpTo(S, n) ==
    IF n = 0 THEN { <<>> }
    ELSE LET shorter == SeqsUpTo(S, n - 1)
         IN  shorter \cup { Append(s, x) : s \in { t \in shorter : Len(t) = n - 1 }, x \in S }

(***************************************************************************)
(* DynamicRAGManager.should_create_rag, lines 99-147: the analysis of the  *)
(* rows the record store returned.                                         *)
(***************************************************************************)
\* doc.document_type or "unknown"
doc_type(doc) == IF doc.document_type = NULL THEN "unknown" ELSE doc.document_type

\* float(doc.document_size_mb or 0)
doc_size(doc) ==
    IF doc.document_size_mb = NoSize THEN 0 ELSE doc.document_size_mb[1]

\* the loop of lines 112-119, folded over the rows in order
RECURSIVE analyze(_, _)
analyze(results, analysis) ==
    IF results = <<>> THEN analysis
    ELSE LET doc == Head(results)
             t   == doc_type(doc)
             by  == analysis.documents_by_type
             seen == IF t \in DOMAIN by THEN by
                     ELSE [k \in DOMAIN by \cup {t} |-> IF k = t THEN 0 ELSE by[k]]
         IN  analyze(Tail(results),
                 [analysis EXCEPT
                     !.document_types = @ \cup {t},
                     !.total_size_mb = @ + doc_size(doc),
                     !.documents_by_type = [seen EXCEPT ![t] = @ + 1]])

\* f"{x:.1f}": a size rounded to one decimal (still in hundredths)
Format1f(x) == ((x + 5) \div 10) * 10

required_found_any_type(document_types) == Cardinality(document_types)

\* sum(1 for req_type in required_types if req_type in document_types)
required_found(document_types) ==
    Cardinality({ i \in DOMAIN required_types : required_types[i] \in document_types })

\* {**analysis, "reason": ...}
with_reason(analysis, reason) ==
    [k \in DOMAIN analysis \cup {"reason"} |->
        IF k = "reason" THEN reason ELSE analysis[k]]

\* {**analysis, "reason": "All thresholds met", "rag_ready": True}
with_ready(analysis) ==
    [k \in DOMAIN analysis \cup {"reason", "rag_ready"} |->
        IF k = "reason" THEN [text |-> "All thresholds met"]
        ELSE IF k = "rag_ready" THEN TRUE
        ELSE analysis[k]]

\* lines 127-147, "Apply thresholds": the (should_create, analysis) pair; a
\* reason is the message's fixed text with the values formatted into it
apply_thresholds_types_first(analysis) ==
    IF Cardinality(analysis.document_types) < min_document_types
    THEN <<FALSE, with_reason(analysis,
             [text |-> "Need document types",
              need |-> min_document_types,
              have |-> Cardinality(analysis.document_types)])>>
    ELSE IF analysis.total_documents < min_documents
    THEN <<FALSE, with_reason(analysis,
             [text |-> "Need documents",
              need |-> min_documents, have |-> analysis.total_documents])>>
    ELSE IF required_found(analysis.document_types) < min_required_found
    THEN <<FALSE, with_reason(analysis,
             [text |-> "Need at least 2 required document types",
              types |-> required_types])>>
    ELSE IF analysis.total_size_mb < min_total_size_mb
    THEN <<FALSE, with_reason(analysis,
             [text |-> "Need MB content",
              need |-> min_total_size_mb,
              have |-> Format1f(analysis.total_size_mb)])>>
    ELSE <<TRUE, with_ready(analysis)>>

apply_thresholds(analysis) ==
    IF analysis.total_documents < min_documents
    THEN <<FALSE, with_reason(analysis,
             [text |-> "Need documents",
              need |-> min_documents, have |-> analysis.total_documents])>>
    ELSE IF Cardinality(analysis.document_types) < min_document_types
    THEN <<FALSE, with_reason(analysis,
             [text |-> "Need document types",
              need |-> min_document_types,
              have |-> Cardinality(analysis.document_types)])>>
    ELSE IF required_found(analysis.document_types) < min_required_found
    THEN <<FALSE, with_reason(analysis,
             [text |-> "Need at least 2 required document types",
              types |-> required_types])>>
    ELSE IF analysis.total_size_mb < min_total_size_mb
    THEN <<FALSE, with_reason(analysis,
             [text |-> "Need MB content",
              need |-> min_total_size_mb,
              have |-> Format1f(analysis.total_size_mb)])>>
    ELSE <<TRUE, with_ready(analysis)>>

\* lines 103-110: the analysis before the loop (latest_document and
\* oldest_document, which no threshold reads, are left out)
new_analysis(results) ==
    [total_documents |-> Len(results),
     document_types |-> {},
     total_size_mb |-> 0,
     documents_by_type |-> <<>>]

should_create_rag_no_empty_case(results) ==
    apply_thresholds(analyze(results, new_analysis(results)))

\* lines 97-147: the (should_create, analysis) pair for the rows `results`
\* the record store returned
should_create_rag(results) ==
    IF results = <<>>
    THEN <<FALSE, [reason |-> [text |-> "No documents found"], document_count |-> 0]>>
    ELSE apply_thresholds(analyze(results, new_analysis(results)))

\* the except branch of lines 149-150
should_create_rag_error ==
    <<FALSE, [reason |-> [text |-> "Error analyzing documents"], error |-> TRUE]>>

(***************************************************************************)
(* State.                                                                  *)
(***************************************************************************)
VARIABLES
    store,        \* claim_documents: per claim the available rows, oldest first
    now,          \* datetime.now() / time.time(), in hours
    collections,  \* every collection ever created in a Chroma client
    pc,           \* per caller: where its current call stands
    active_rags,  \* per caller: active_rags of the manager its call constructed
    local,        \* per caller: the locals of create_dynamic_rag_engine
    result,       \* what the call that returned last returned
    registered,   \* the rag_info records stored at line 352 and not deleted at line 551
    readiness,    \* what check_rag_readiness last computed
    request       \* the fraud-scorer call under way: its arguments and the rows
                  \* the record store answers its queries with

vars == <<store, now, collections, pc, active_rags, local, result,
          registered, readiness, request>>

\* DynamicRAGManager.__init__, line 57: every manager starts with no RAG
\* (the clients of lines 55-56 are taken to be constructible, as the import
\* of the module already needs the credentials, line 46)
NewRegistry == <<>>

NoLocal == <<>>
NoResult == [op |-> "none", kind |-> "none"]
NoReadiness == [claim_id |-> <<>>]
NoRequest == [op |-> "none"]

\* the rows a claim's documents arrive as, in upload order
UploadOrder ==
    << [document_type |-> "police_report", document_size_mb |-> <<50>>],
       [document_type |-> "photos", document_size_mb |-> <<50>>],
       [document_type |-> "medical_record", document_size_mb |-> NoSize] >>

\* the claim whose documents come and go; the other claims' are all there
ArrivingClaim == <<"c", "-", "1">>

Init ==
    /\ store = [c \in ClaimIds |-> IF c = ArrivingClaim THEN <<>> ELSE UploadOrder]
    /\ now = 0
    /\ collections = <<>>
    /\ pc = [p \in Callers |-> "idle"]
    /\ active_rags = [p \in Callers |-> NewRegistry]
    /\ local = [p \in Callers |-> NoLocal]
    /\ result = NoResult
    /\ registered = {}
    /\ readiness = NoReadiness
    /\ request = NoRequest

(***************************************************************************)
(* create_dynamic_rag_engine, lines 228-388.  The steps are cut at the     *)
(* calls to the record store and to the Chroma client, where other callers *)
(* may run.                                                                *)
(***************************************************************************)
\* f"claim_{claim_id.replace('-', '_')}", line 255
temp_collection_name(claim_id) ==
    <<"claim_">> \o [i \in DOMAIN claim_id |->
                        IF claim_id[i] = "-" THEN "_" ELSE claim_id[i]]

\* f"/tmp/rag_{claim_id}", line 260
persist_directory(claim_id) == <<"/tmp/rag_">> \o claim_id

\* the except clause of lines 382-388: the call returns, its manager is dropped
CreationError(p) ==
    /\ pc' = [pc EXCEPT ![p] = "idle"]
    /\ result' =
            [op |-> "create", claim_id |-> local[p].claim_id, kind |-> "CREATION_ERROR"]
    /\ active_rags' = [active_rags EXCEPT ![p] = NewRegistry]
    /\ local' = [local EXCEPT ![p] = NoLocal]

\* callers that have yet to reach create_collection
AboutToCreate == { q \in Callers : pc[q] \in {"verify", "create"} }

\* lines 229-241: a manager is constructed, then "Check if RAG already exists"
EnsureBegin(p, claim_id) ==
    /\ pc[p] = "idle"
    /\ Len(collections) + Cardinality(AboutToCreate) < MaxCollections
    /\ LET rags == NewRegistry
       IN  IF claim_id \in DOMAIN rags
           THEN /\ result' =
                       [op |-> "create", claim_id |-> claim_id,
                        kind |-> "ALREADY_ACTIVE",
                        engine_id |-> rags[claim_id].engine_id,
                        created_at |-> rags[claim_id].created_at,
                        document_count |-> rags[claim_id].document_count]
                /\ UNCHANGED <<pc, active_rags, local>>
           ELSE /\ pc' = [pc EXCEPT ![p] = "verify"]
                /\ active_rags' = [active_rags EXCEPT ![p] = rags]
                /\ local' = [local EXCEPT ![p] = [claim_id |-> claim_id]]
                /\ UNCHANGED result
    /\ UNCHANGED <<store, now, collections, registered, readiness, request>>

\* "Verify readiness" with the early return of lines 245-251 left out
EnsureVerify_no_return(p) ==
    /\ pc[p] = "verify"
    /\ \E store_ok \in BOOLEAN :
         LET verdict == IF store_ok THEN should_create_rag(store[local[p].claim_id])
                        ELSE should_create_rag_error
         IN  /\ pc' = [pc EXCEPT ![p] = "create"]
             /\ local' = [local EXCEPT ![p] =
                    [claim_id |-> @.claim_id,
                     should_create |-> verdict[1],
                     engine_id |-> now]]
             /\ UNCHANGED <<result, active_rags>>
    /\ UNCHANGED <<store, now, collections, registered, readiness, request>>

\* lines 243-255: "Verify readiness"; store_ok is whether the record store
\* answered the query of should_create_rag (of the locals should_create
\* and analysis only should_create is kept: nothing reads analysis later)
EnsureVerify(p) ==
    /\ pc[p] = "verify"
    /\ \E store_ok \in BOOLEAN :
         LET verdict == IF store_ok THEN should_create_rag(store[local[p].claim_id])
                        ELSE should_create_rag_error
         IN  IF ~verdict[1]
             THEN /\ pc' = [pc EXCEPT ![p] = "idle"]
                  /\ result' =
                         [op |-> "create", claim_id |-> local[p].claim_id,
                          kind |-> "CREATION_FAILED",
                          reason |-> verdict[2].reason]
                  /\ active_rags' = [active_rags EXCEPT ![p] = NewRegistry]
                  /\ local' = [local EXCEPT ![p] = NoLocal]
             ELSE /\ pc' = [pc EXCEPT ![p] = "create"]
                  /\ local' = [local EXCEPT ![p] =
                         [claim_id |-> @.claim_id,
                          should_create |-> verdict[1],
                          engine_id |-> now]]
                  /\ UNCHANGED <<result, active_rags>>
    /\ UNCHANGED <<store, now, collections, registered, readiness, request>>

\* lines 257-266: a Chroma client of this and create_collection in it
EnsureCreateCollection(p) ==
    /\ pc[p] = "create"
    /\ \/ /\ collections' = Append(collections,
                  [name |-> temp_collection_name(local[p].claim_id),
                   persist_directory |-> persist_directory(local[p].claim_id),
                   claim_id |-> local[p].claim_id,
                   vectors |-> 0,
                   live |-> TRUE])
          /\ local' = [local EXCEPT ![p] =
                  [k \in DOMAIN @ \cup {"collection"} |->
                      IF k = "collection" THEN Len(collections) + 1 ELSE @[k]]]
          /\ pc' = [pc EXCEPT ![p] = "fetch"]
          /\ UNCHANGED <<result, active_rags>>
       \/ /\ CreationError(p)
          /\ UNCHANGED collections
    /\ UNCHANGED <<store, now, registered, readiness, request>>

\* lines 268-297: "Get claim documents"; `fetched` is the list of line 286
\* and `documents` what the loop of line 299 has yet to visit
EnsureFetch(p) ==
    /\ pc[p] = "fetch"
    /\ \/ /\ local' = [local EXCEPT ![p] =
                  [claim_id |-> @.claim_id,
                   should_create |-> @.should_create,
                   engine_id |-> @.engine_id,
                   collection |-> @.collection,
                   fetched |-> store[local[p].claim_id],
                   documents |-> store[local[p].claim_id],
                   processed_docs |-> 0,
                   total_chunks |-> 0]]
          /\ pc' = [pc EXCEPT ![p] = "ingest"]
          /\ UNCHANGED <<result, active_rags>>
       \/ CreationError(p)
    /\ UNCHANGED <<store, now, collections, registered, readiness, request>>

\* lines 299-336, one document: its document_uri is a string, the extracted
\* text is never empty (lines 515, 524), the splitter returns `chunks`
\* chunks of it, and `added` of them reach collection.add before
\* embed_query or add raises (added = chunks when neither does)
EnsureIngest(p) ==
    /\ pc[p] = "ingest"
    /\ local[p].documents # <<>>
    /\ \E chunks \in 1..MaxChunks : \E added \in 0..chunks :
          /\ local' = [local EXCEPT ![p] =
                  [@ EXCEPT !.documents = Tail(@),
                            !.total_chunks = @ + chunks,
                            !.processed_docs =
                                IF added = chunks THEN @ + 1 ELSE @]]
          /\ collections' = [collections EXCEPT ![local[p].collection] =
                  [@ EXCEPT !.vectors = @ + added]]
    /\ UNCHANGED <<store, now, pc, active_rags, result, registered, readiness, request>>

\* "Store RAG instance info" with the handle expiring as it is created
EnsureStore_expires_at_once(p) ==
    /\ pc[p] = "ingest"
    /\ local[p].documents = <<>>
    /\ LET rag_info ==
               [engine_id |-> local[p].engine_id,
                claim_id |-> local[p].claim_id,
                collection_name |-> temp_collection_name(local[p].claim_id),
                collection |-> local[p].collection,
                created_at |-> now,
                document_count |-> local[p].processed_docs,
                chunk_count |-> local[p].total_chunks,
                expires_at |-> now]
       IN  /\ active_rags' = [active_rags EXCEPT ![p] =
                   [c \in DOMAIN @ \cup {local[p].claim_id} |->
                       IF c = local[p].claim_id THEN rag_info ELSE @[c]]]
           /\ registered' = registered \cup {rag_info}
    /\ pc' = [pc EXCEPT ![p] = "respond"]
    /\ UNCHANGED <<store, now, collections, local, result, readiness, request>>

\* lines 338-352: "Store RAG instance info"
EnsureStore(p) ==
    /\ pc[p] = "ingest"
    /\ local[p].documents = <<>>
    /\ LET rag_info ==
               [engine_id |-> local[p].engine_id,
                claim_id |-> local[p].claim_id,
                collection_name |-> temp_collection_name(local[p].claim_id),
                collection |-> local[p].collection,
                created_at |-> now,
                document_count |-> local[p].processed_docs,
                chunk_count |-> local[p].total_chunks,
                expires_at |-> now + rag_cleanup_hours]
       IN  /\ active_rags' = [active_rags EXCEPT ![p] =
                   [c \in DOMAIN @ \cup {local[p].claim_id} |->
                       IF c = local[p].claim_id THEN rag_info ELSE @[c]]]
           /\ registered' = registered \cup {rag_info}
    /\ pc' = [pc EXCEPT ![p] = "respond"]
    /\ UNCHANGED <<store, now, collections, local, result, readiness, request>>

\* lines 354-380: the success message is returned; the manager, a local
\* of the goes with it
EnsureReturn(p) ==
    /\ pc[p] = "respond"
    /\ result' =
            [op |-> "create", claim_id |-> local[p].claim_id, kind |-> "CREATED"]
    /\ pc' = [pc EXCEPT ![p] = "idle"]
    /\ active_rags' = [active_rags EXCEPT ![p] = NewRegistry]
    /\ local' = [local EXCEPT ![p] = NoLocal]
    /\ UNCHANGED <<store, now, collections, registered, readiness, request>>

(***************************************************************************)
(* query_rag_engine, lines 403-507.                                        *)
(***************************************************************************)
\* what the embedding service and the collection answer to one query
QueryOutcomes == [embed_ok : BOOLEAN, search : {"raises", "empty", "hits"}]

\* the check of line 407 inverted: the lookup of line 417 then raises
\* KeyError for an absent claim_id, which line 500 turns into an error
query_rag_engine_inverted_check(rags, claim_id, colls, outcome) ==
    IF claim_id \in DOMAIN rags
    THEN [op |-> "query", claim_id |-> claim_id, kind |-> "NOT_FOUND",
          embed_calls |-> 0, search_calls |-> 0]
    ELSE [op |-> "query", claim_id |-> claim_id, kind |-> "QUERY_ERROR",
          embed_calls |-> 0, search_calls |-> 0]

\* the value query_rag_engine returns for the registry `rags` of its manager
query_rag_engine(rags, claim_id, colls, outcome) ==
    IF claim_id \notin DOMAIN rags
    THEN [op |-> "query", claim_id |-> claim_id, kind |-> "NOT_FOUND",
          embed_calls |-> 0, search_calls |-> 0]
    ELSE IF ~outcome.embed_ok
    THEN [op |-> "query", claim_id |-> claim_id, kind |-> "QUERY_ERROR",
          embed_calls |-> 1, search_calls |-> 0]
    ELSE IF outcome.search = "raises" \/ ~colls[rags[claim_id].collection].live
    THEN [op |-> "query", claim_id |-> claim_id, kind |-> "QUERY_ERROR",
          embed_calls |-> 1, search_calls |-> 1]
    ELSE IF outcome.search = "empty" \/ colls[rags[claim_id].collection].vectors = 0
    THEN [op |-> "query", claim_id |-> claim_id, kind |-> "NO_RESULTS",
          embed_calls |-> 1, search_calls |-> 1]
    ELSE [op |-> "query", claim_id |-> claim_id, kind |-> "ANALYSIS_COMPLETE",
          embed_calls |-> 1, search_calls |-> 1]

\* a call of query_rag_engine that looks the claim up in a registry holding
\* the handles the earlier calls stored
QueryCall_kept_registry(p, claim_id) ==
    /\ pc[p] = "idle"
    /\ LET kept == { h.claim_id : h \in registered }
           rags == [c \in kept |-> CHOOSE h \in registered : h.claim_id = c]
       IN  \E outcome \in QueryOutcomes :
             result' = query_rag_engine(rags, claim_id, collections, outcome)
    /\ UNCHANGED <<store, now, collections, pc, active_rags, local, registered,
                   readiness, request>>

\* one call of query_rag_engine: it constructs its manager (line 404) and
\* returns at line 408 before any external call, so the call is one step
QueryCall(p, claim_id) ==
    /\ pc[p] = "idle"
    /\ \E outcome \in QueryOutcomes :
         result' =
             query_rag_engine(NewRegistry, claim_id, collections, outcome)
    /\ UNCHANGED <<store, now, collections, pc, active_rags, local, registered,
                   readiness, request>>

(***************************************************************************)
(* cleanup_expired_rags, lines 536-572.                                    *)
(***************************************************************************)
\* the claims of `rags` the loop of lines 541-552 removes at current_time
expired_claims(rags, current_time) ==
    { c \in DOMAIN rags : current_time > rags[c].expires_at }

\* one call of cleanup_expired_rags: it constructs its manager (line 537)
\* and loops over that manager's active_rags; `undeleted` are the expired
\* claims whose delete_collection raised (lines 545-548)
Sweep(p) ==
    /\ pc[p] = "idle"
    /\ LET rags == NewRegistry
           expired == expired_claims(rags, now)
       IN  /\ \E undeleted \in SUBSET expired :
                collections' = [i \in DOMAIN collections |->
                    IF \E c \in expired \ undeleted : rags[c].collection = i
                    THEN [collections[i] EXCEPT !.live = FALSE]
                    ELSE collections[i]]
           /\ registered' = registered \ { rags[c] : c \in expired }
           /\ result' =
                   [op |-> "cleanup", kind |-> "CLEANUP_COMPLETED",
                    expired_claims |-> expired,
                    active |-> Cardinality(DOMAIN rags \ expired)]
    /\ UNCHANGED <<store, now, pc, active_rags, local, readiness, request>>

(***************************************************************************)
(* The environment: the clock and the record store.                        *)
(***************************************************************************)
\* hours pass
Tick ==
    /\ now + TickHours <= MaxTime
    /\ now' = now + TickHours
    /\ UNCHANGED <<store, collections, pc, active_rags, local, result,
                   registered, readiness, request>>

\* the next document of the claim becomes available
Upload(claim_id) ==
    /\ Len(store[claim_id]) < Len(UploadOrder)
    /\ store' = [store EXCEPT ![claim_id] = Append(@, UploadOrder[Len(@) + 1])]
    /\ UNCHANGED <<now, collections, pc, active_rags, local, result,
                   registered, readiness, request>>

\* the newest document of the claim stops being available
Withdraw(claim_id) ==
    /\ store[claim_id] # <<>>
    /\ store' = [store EXCEPT ![claim_id] = SubSeq(@, 1, Len(@) - 1)]
    /\ UNCHANGED <<now, collections, pc, active_rags, local, result,
                   registered, readiness, request>>

Next ==
    \/ \E p \in Callers, c \in ClaimIds : EnsureBegin(p, c)
    \/ \E p \in Callers : EnsureVerify(p)
    \/ \E p \in Callers : EnsureCreateCollection(p)
    \/ \E p \in Callers : EnsureFetch(p)
    \/ \E p \in Callers : EnsureIngest(p)
    \/ \E p \in Callers : EnsureStore(p)
    \/ \E p \in Callers : EnsureReturn(p)
    \/ \E p \in Callers, c \in ClaimIds : QueryCall(p, c)
    \/ \E p \in Callers : Sweep(p)
    \/ Tick
    \/ Upload(ArrivingClaim)
    \/ Withdraw(ArrivingClaim)

Spec == Init /\ [][Next]_vars

(***************************************************************************)
(* The registry's claims, under Spec.                                      *)
(***************************************************************************)
\* the callers whose manager holds a handle for the claim
Holders(claim_id) == { p \in Callers : claim_id \in DOMAIN active_rags[p] }

\* the live collections created for the claim
LiveCollections(claim_id) ==
    { i \in DOMAIN collections :
        collections[i].live /\ collections[i].claim_id = claim_id }

\* the handles stored for the claim by calls that succeeded, none of them
\* removed by a sweep
Stored(claim_id) == { h \in registered : h.claim_id = claim_id }

\* C1: in every reachable state at most one index handle, and at most one
\* live external collection, exists for any given claim_id.
C1_AtMostOneHandlePerClaim ==
    \A c \in ClaimIds :
        /\ Cardinality(Holders(c)) <= 1
        /\ Cardinality(LiveCollections(c)) <= 1

\* the caller is inside create_dynamic_rag_engine and has built (created
\* the collection of) an index
HasBuilt(p) == pc[p] # "idle" /\ "collection" \in DOMAIN local[p]

\* C2: of two concurrent create_dynamic_rag_engine calls for the same
\* claim_id only one performs an index build.
C2_ConcurrentEnsureBuildsOnce ==
    \A p, q \in Callers :
        (p # q /\ HasBuilt(p) /\ HasBuilt(q)) =>
            local[p].claim_id # local[q].claim_id

\* C3: a create_dynamic_rag_engine call for a claim whose handle an earlier
\* call stored, and no sweep removed, returns that handle at once (same
\* engine_id, created_at, document_count) and changes neither the registry
\* nor the collections.
C3_EnsureIdempotent ==
    [][\A p \in Callers, c \in ClaimIds :
          (EnsureBegin(p, c) /\ Stored(c) # {}) =>
              /\ \E h \in Stored(c) :
                     result' = [op |-> "create", claim_id |-> c,
                                kind |-> "ALREADY_ACTIVE",
                                engine_id |-> h.engine_id,
                                created_at |-> h.created_at,
                                document_count |-> h.document_count]
              /\ pc'[p] = "idle"
              /\ UNCHANGED <<active_rags, registered, collections>>]_vars

\* the step is a sweep that ran when the handle had expired
ExpiredSweepStep(h) == now > h.expires_at /\ result'.op = "cleanup"

\* C4: a handle a successful create_dynamic_rag_engine put in the registry
\* stays there until a sweep with now > expires_at removes it, and every
\* query_rag_engine for its claim in between finds it, so none returns
\* 'RAG ENGINE NOT FOUND'.
C4_HandleStaysUntilSwept ==
    [][/\ \A p \in Callers : \A c \in DOMAIN active_rags[p] :
            \/ c \in DOMAIN active_rags'[p] /\ active_rags'[p][c] = active_rags[p][c]
            \/ ExpiredSweepStep(active_rags[p][c])
       /\ \A p \in Callers, c \in ClaimIds :
            (QueryCall(p, c) /\ Stored(c) # {}) => result'.kind # "NOT_FOUND"]_vars

\* C5: query_rag_engine for a claim_id without a stored handle returns
\* 'RAG ENGINE NOT FOUND', calls neither the embedding service nor the
\* collection, and leaves registry and collections unchanged.
C5_QueryWithoutHandleNotFound ==
    [][\A p \in Callers, c \in ClaimIds :
          (QueryCall(p, c) /\ Stored(c) = {}) =>
              /\ result' = [op |-> "query", claim_id |-> c, kind |-> "NOT_FOUND",
                            embed_calls |-> 0, search_calls |-> 0]
              /\ UNCHANGED <<active_rags, registered, collections>>]_vars

\* a query has returned 'RAG ENGINE NOT FOUND' for a claim that has
\* documents but no stored handle, while the other claim has one
C5_Witness ==
    /\ result.op = "query"
    /\ result.kind = "NOT_FOUND"
    /\ result.embed_calls = 0
    /\ Stored(result.claim_id) = {}
    /\ store[result.claim_id] # <<>>
    /\ registered # {}

\* C6: a sweep at time now removes every stored handle with expires_at <
\* now and deletes its collection, and leaves every handle with now <=
\* expires_at, and its collection, as they were.
C6_SweepRemovesExactlyExpired ==
    [][\A p \in Callers :
          Sweep(p) =>
              \A h \in registered :
                  IF now > h.expires_at
                  THEN h \notin registered' /\ ~collections'[h.collection].live
                  ELSE /\ h \in registered'
                       /\ collections'[h.collection] = collections[h.collection]]_vars

\* C7: a create_dynamic_rag_engine call whose sufficiency evaluation is not
\* ready returns a failure carrying the evaluator's reason, creates no
\* collection, ingests nothing and leaves the registry unchanged; a call
\* goes on to build, and later stores a handle, only when should_create_rag
\* returned ready for its claim.
C7_NotReadyLeavesStateUnchanged ==
    [][\A p \in Callers :
          /\ (pc[p] = "verify" /\ pc'[p] = "idle") =>
                 /\ result'.op = "create"
                 /\ result'.claim_id = local[p].claim_id
                 /\ result'.kind = "CREATION_FAILED"
                 /\ \/ /\ ~should_create_rag(store[local[p].claim_id])[1]
                       /\ result'.reason =
                              should_create_rag(store[local[p].claim_id])[2].reason
                    \/ result'.reason = should_create_rag_error[2].reason
                 /\ UNCHANGED <<collections, registered>>
                 /\ \A c \in ClaimIds : Holders(c)' = Holders(c)
          /\ (pc[p] = "verify" /\ pc'[p] = "create") =>
                 should_create_rag(store[local[p].claim_id])[1]
          /\ \A c \in DOMAIN active_rags'[p] \ DOMAIN active_rags[p] :
                 local[p].claim_id = c /\ local[p].should_create]_vars

\* a call has failed with the evaluator's reason for a claim with too few
\* documents; nothing was built or stored for that claim
C7_Witness ==
    /\ result.op = "create"
    /\ result.kind = "CREATION_FAILED"
    /\ result.reason = [text |-> "Need documents", need |-> 3, have |-> 2]
    /\ LiveCollections(result.claim_id) = {}
    /\ Stored(result.claim_id) = {}
    /\ Holders(result.claim_id) = {}

(***************************************************************************)
(* The evaluator alone: check_rag_readiness, lines 163-207, applied to     *)
(* every list of at most MaxDocs rows.                                     *)
(***************************************************************************)
EvalInit ==
    /\ store \in { [c \in ClaimIds |-> IF c = ArrivingClaim THEN rows ELSE <<>>] :
                      rows \in SeqsUpTo(DocRows, MaxDocs) }
    /\ now = 0
    /\ collections = <<>>
    /\ pc = [p \in Callers |-> "idle"]
    /\ active_rags = [p \in Callers |-> NewRegistry]
    /\ local = [p \in Callers |-> NoLocal]
    /\ result = NoResult
    /\ registered = {}
    /\ readiness = NoReadiness
    /\ request = NoRequest

\* lines 164-165: a manager is constructed and asked should_create_rag
CheckReadiness(claim_id) ==
    /\ \E store_ok \in BOOLEAN :
         LET verdict == IF store_ok THEN should_create_rag(store[claim_id])
                        ELSE should_create_rag_error
         IN  readiness' = [claim_id |-> claim_id,
                           should_create |-> verdict[1],
                           analysis |-> verdict[2]]
    /\ UNCHANGED <<store, now, collections, pc, active_rags, local, result,
                   registered, request>>

EvalNext == \E c \in ClaimIds : CheckReadiness(c)

EvalSpec == EvalInit /\ [][EvalNext]_vars

(***************************************************************************)
(* The sufficiency evaluator's claims, under EvalSpec.                     *)
(***************************************************************************)
\* the rows the last readiness check was about
CheckedRows == store[readiness.claim_id]

\* a readiness check has run and its store query was answered
Evaluated == readiness # NoReadiness /\ "error" \notin DOMAIN readiness.analysis

\* the type a row counts as: a missing type is 'unknown'
CountsAsType(row) ==
    IF row.document_type \in {"police_report", "estimate", "photos", "medical_record"}
    THEN row.document_type ELSE "unknown"

DistinctTypes(rows) == { CountsAsType(rows[i]) : i \in DOMAIN rows }

PrivilegedPresent(rows) ==
    Cardinality(DistinctTypes(rows) \cap {"police_report", "estimate", "photos"})

\* the summed size of the rows; a missing size is 0
RECURSIVE SummedSize(_, _)
SummedSize(rows, n) ==
    IF n = 0 THEN 0
    ELSE SummedSize(rows, n - 1)
         + (IF Len(rows[n].document_size_mb) = 0 THEN 0 ELSE rows[n].document_size_mb[1])

CountMet(rows) == Len(rows) >= 3
TypesMet(rows) == Cardinality(DistinctTypes(rows)) >= 2
PrivilegedMet(rows) == PrivilegedPresent(rows) >= 2
SizeMet(rows) == SummedSize(rows, Len(rows)) >= 100

\* C8: should_create_rag returns ready exactly when all four thresholds
\* hold of the rows: at least 3 documents, at least 2 distinct types, at
\* least 2 of police_report/estimate/photos among them, summed size at
\* least 1.0 MB (missing type = 'unknown', missing size = 0).
C8_ReadyIffAllFourThresholds ==
    Evaluated =>
        (readiness.should_create <=>
            /\ CountMet(CheckedRows)
            /\ TypesMet(CheckedRows)
            /\ PrivilegedMet(CheckedRows)
            /\ SizeMet(CheckedRows))

\* a ready verdict reached over rows with a missing size and a missing type
C8_Witness ==
    /\ Evaluated
    /\ readiness.should_create
    /\ \E i \in DOMAIN CheckedRows : CheckedRows[i].document_size_mb = NoSize
    /\ \E i \in DOMAIN CheckedRows : CheckedRows[i].document_type = NULL

\* the first threshold, in the order 1 count, 2 types, 3 privileged types,
\* 4 size, that the rows do not meet (0 when they meet all)
FirstUnmet(rows) ==
    IF ~CountMet(rows) THEN 1
    ELSE IF ~TypesMet(rows) THEN 2
    ELSE IF ~PrivilegedMet(rows) THEN 3
    ELSE IF ~SizeMet(rows) THEN 4
    ELSE 0

\* C9 as claimed: whenever ready is false, the reason names the first unmet
\* threshold and states its observed value against its required value.
C9_ReasonStatesObservedAndRequired ==
    (readiness # NoReadiness /\ ~readiness.should_create) =>
        LET r == readiness.analysis.reason
            rows == CheckedRows
        IN  /\ "need" \in DOMAIN r
            /\ "have" \in DOMAIN r
            /\ FirstUnmet(rows) = 1 =>
                   r.text = "Need documents" /\ r.need = 3 /\ r.have = Len(rows)
            /\ FirstUnmet(rows) = 2 =>
                   /\ r.text = "Need document types"
                   /\ r.need = 2
                   /\ r.have = Cardinality(DistinctTypes(rows))
            /\ FirstUnmet(rows) = 3 =>
                   /\ r.text = "Need at least 2 required document types"
                   /\ r.need = 2
                   /\ r.have = PrivilegedPresent(rows)
            /\ FirstUnmet(rows) = 4 =>
                   /\ r.text = "Need MB content"
                   /\ r.need = 100
                   /\ r.have = SummedSize(rows, Len(rows))

\* C9 as amended: when the store query was answered with at least one row
\* and ready is false, the reason names the first unmet threshold in the
\* order count, types, privileged types, size; it states observed against
\* required for the count and the type count, only the requirement (the
\* three privileged types) for the privileged types, and for the size the
\* required 1.0 MB against the observed size rounded to one decimal.
C9_ReasonNamesFirstUnmet ==
    (Evaluated /\ ~readiness.should_create /\ CheckedRows # <<>>) =>
        LET r == readiness.analysis.reason
            rows == CheckedRows
            size == SummedSize(rows, Len(rows))
        IN  /\ FirstUnmet(rows) = 1 =>
                   r = [text |-> "Need documents", need |-> 3, have |-> Len(rows)]
            /\ FirstUnmet(rows) = 2 =>
                   r = [text |-> "Need document types", need |-> 2,
                        have |-> Cardinality(DistinctTypes(rows))]
            /\ FirstUnmet(rows) = 3 =>
                   r = [text |-> "Need at least 2 required document types",
                        types |-> <<"police_report", "estimate", "photos">>]
            /\ FirstUnmet(rows) = 4 =>
                   /\ r.text = "Need MB content"
                   /\ r.need = 100
                   /\ r.have % 10 = 0
                   /\ r.have - size <= 5
                   /\ size - r.have < 5
            /\ FirstUnmet(rows) # 0

\* a size shortfall reported with a rounded observed value that differs
\* from the sum, reached after the three earlier thresholds passed
C9_Witness ==
    /\ Evaluated
    /\ ~readiness.should_create
    /\ FirstUnmet(CheckedRows) = 4
    /\ readiness.analysis.reason.have # SummedSize(CheckedRows, Len(CheckedRows))

base_score == 500

\* the cap of min(fraud_score, 1.0), lines 200, 342 and 557
score_cap == 10000

\* the literals of the "Risk level determination" chains
high_threshold == 7000
medium_threshold == 4000
low_threshold == 1500

RECURSIVE SumSeq(_)
SumSeq(terms) == IF terms = <<>> THEN 0 ELSE Head(terms) + SumSeq(Tail(terms))

\* the sequences of terms, added in this order, whose sum as doubles is
\* below the double of their decimal sum where that sum is one of the
\* compared literals: 0.05 + 0.2 + 0.05 + 0.05 + 0.05 is 0.39999999999999997
RoundsBelow == { <<500, 2000, 500, 500, 500>> }

\* the repeated "fraud_score += term" over doubles
double_sum(terms) == SumSeq(terms) - (IF terms \in RoundsBelow THEN 1 ELSE 0)

min(a, b) == IF a <= b THEN a ELSE b

(***************************************************************************)
(* check_claimant_history, lines 38-259.  The call's arguments only choose *)
(* the rows the query returns; the rows are the input.                     *)
(***************************************************************************)
\* most rows a claimant's history has
MaxClaims == 5

\* rows of the claims table, ORDER BY incident_date DESC (days_ago ascending,
\* a NULL incident_date last); numeric columns are sequences as above
ClaimRows ==
    << [days_ago |-> <<5>>, city |-> "Springfield", state |-> "MA",
        claim_type |-> "collision", estimated_damage |-> <<20000>>,
        reporting_delay |-> <<0>>],
       [days_ago |-> <<10>>, city |-> "Springfield", state |-> "MA",
        claim_type |-> "theft", estimated_damage |-> <<5000>>,
        reporting_delay |-> <<10>>],
       [days_ago |-> <<20>>, city |-> "Springfield", state |-> "IL",
        claim_type |-> "collision", estimated_damage |-> NoSize,
        reporting_delay |-> NoSize],
       [days_ago |-> <<60>>, city |-> "Springfield", state |-> "MA",
        claim_type |-> "collision", estimated_damage |-> <<5000>>,
        reporting_delay |-> <<40>>],
       [days_ago |-> <<60>>, city |-> "Hartford", state |-> "CT",
        claim_type |-> NULL, estimated_damage |-> <<20000>>,
        reporting_delay |-> <<10>>],
       [days_ago |-> <<200>>, city |-> "Springfield", state |-> "MA",
        claim_type |-> "collision", estimated_damage |-> <<5000>>,
        reporting_delay |-> <<10>>],
       [days_ago |-> NoSize, city |-> "Springfield", state |-> "MA",
        claim_type |-> "collision", estimated_damage |-> <<5000>>,
        reporting_delay |-> NoSize] >>

\* the histories the query can return: up to MaxClaims rows in the order of
\* the ORDER BY
Histories ==
    { [i \in DOMAIN ix |-> ClaimRows[ix[i]]] :
        ix \in { jx \in SeqsUpTo(DOMAIN ClaimRows, MaxClaims) :
                   \A i \in 1..(Len(jx) - 1) : jx[i] <= jx[i + 1] } }

\* lines 120-133: analysis_results (and total_damage, reporting_delays)
\* before the loop
new_history_analysis(results) ==
    [total_claims |-> Len(results),
     recent_claims_30d |-> 0,
     recent_claims_90d |-> 0,
     geographic_spread |-> {},
     claim_types |-> <<>>,
     total_damage |-> 0,
     reporting_delays |-> <<>>]

\* the loop of lines 135-156, folded over the rows in order
RECURSIVE analyze_history(_, _)
analyze_history(results, a) ==
    IF results = <<>> THEN a
    ELSE LET claim == Head(results)
             days_ago == claim.days_ago[1]
             claim_type == IF claim.claim_type = NULL THEN "unknown"
                           ELSE claim.claim_type
             types == a.claim_types
             got == IF claim_type \in DOMAIN types THEN types[claim_type] ELSE 0
         IN  analyze_history(Tail(results),
                 [a EXCEPT
                     !.recent_claims_30d = IF days_ago <= 30 THEN @ + 1 ELSE @,
                     !.recent_claims_90d = IF days_ago <= 90 THEN @ + 1 ELSE @,
                     !.geographic_spread = @ \cup {<<claim.city, claim.state>>},
                     !.claim_types =
                        [k \in DOMAIN types \cup {claim_type} |->
                            IF k = claim_type THEN got + 1 ELSE types[k]],
                     !.total_damage =
                        IF claim.estimated_damage = NoSize THEN @
                        ELSE @ + claim.estimated_damage[1],
                     !.reporting_delays =
                        IF claim.reporting_delay = NoSize THEN @
                        ELSE Append(@, claim.reporting_delay[1])])

most_common_count_least(claim_types) ==
    IF DOMAIN claim_types = {} THEN 0
    ELSE CHOOSE n \in { claim_types[k] : k \in DOMAIN claim_types } :
            \A k \in DOMAIN claim_types : claim_types[k] >= n

\* max(claim_types.items(), key=count)[1], line 194
most_common_count(claim_types) ==
    IF DOMAIN claim_types = {} THEN 0
    ELSE CHOOSE n \in { claim_types[k] : k \in DOMAIN claim_types } :
            \A k \in DOMAIN claim_types : claim_types[k] <= n

history_indicators_frequency_above_three(a) ==
    LET n == Len(a.reporting_delays)
        delays == SumSeq(a.reporting_delays)
        frequency ==
            IF a.recent_claims_30d > 3 THEN <<[name |-> "High frequency", term |-> 3000]>>
            ELSE IF a.recent_claims_90d > 4
            THEN <<[name |-> "Moderate frequency", term |-> 2000]>>
            ELSE <<>>
        reporting ==
            IF n > 0 /\ delays > 25 * n
            THEN <<[name |-> "Late reporting pattern", term |-> 1500]>>
            ELSE IF n = 0 \/ delays < 1 * n
            THEN <<[name |-> "Immediate reporting pattern", term |-> 1000]>>
            ELSE <<>>
        clustering ==
            IF Cardinality(a.geographic_spread) = 1 /\ a.total_claims > 3
            THEN <<[name |-> "Geographic clustering", term |-> 2000]>>
            ELSE <<>>
        high_value ==
            IF a.total_damage > 15000 * a.total_claims
            THEN <<[name |-> "High-value claims", term |-> 1000]>>
            ELSE <<>>
        repetitive ==
            IF most_common_count(a.claim_types) * 10 >= a.total_claims * 8
            THEN <<[name |-> "Repetitive claim type", term |-> 1500]>>
            ELSE <<>>
    IN  frequency \o reporting \o clustering \o high_value \o repetitive

\* lines 158-197: the averages (a quotient x / n is compared with c as
\* x against c * n) and the indicators, each with the term it adds
history_indicators(a) ==
    LET n == Len(a.reporting_delays)
        delays == SumSeq(a.reporting_delays)
        frequency ==
            IF a.recent_claims_30d > 2 THEN <<[name |-> "High frequency", term |-> 3000]>>
            ELSE IF a.recent_claims_90d > 4
            THEN <<[name |-> "Moderate frequency", term |-> 2000]>>
            ELSE <<>>
        reporting ==
            IF n > 0 /\ delays > 25 * n
            THEN <<[name |-> "Late reporting pattern", term |-> 1500]>>
            ELSE IF n = 0 \/ delays < 1 * n
            THEN <<[name |-> "Immediate reporting pattern", term |-> 1000]>>
            ELSE <<>>
        clustering ==
            IF Cardinality(a.geographic_spread) = 1 /\ a.total_claims > 3
            THEN <<[name |-> "Geographic clustering", term |-> 2000]>>
            ELSE <<>>
        high_value ==
            IF a.total_damage > 15000 * a.total_claims
            THEN <<[name |-> "High-value claims", term |-> 1000]>>
            ELSE <<>>
        repetitive ==
            IF most_common_count(a.claim_types) * 10 >= a.total_claims * 8
            THEN <<[name |-> "Repetitive claim type", term |-> 1500]>>
            ELSE <<>>
    IN  frequency \o reporting \o clustering \o high_value \o repetitive

\* the terms of a sequence of indicators, in order
terms_of(indicators) == [i \in DOMAIN indicators |-> indicators[i].term]
names_of(indicators) == [i \in DOMAIN indicators |-> indicators[i].name]

\* lines 202-218: "Risk level determination" of check_claimant_history
history_risk_level(fraud_score) ==
    IF fraud_score >= high_threshold THEN "HIGH"
    ELSE IF fraud_score >= medium_threshold THEN "MEDIUM"
    ELSE IF fraud_score >= low_threshold THEN "LOW"
    ELSE "MINIMAL"

check_claimant_history_no_empty_case(results) ==
    IF \E i \in DOMAIN results : results[i].days_ago = NoSize
    THEN [op |-> "check_claimant_history", kind |-> "ERROR"]
    ELSE LET a == analyze_history(results, new_history_analysis(results))
             found == history_indicators(a)
             fraud_score == min(double_sum(<<base_score>> \o terms_of(found)), score_cap)
         IN  [op |-> "check_claimant_history", kind |-> "ASSESSMENT",
              total_claims |-> a.total_claims,
              recent_claims_30d |-> a.recent_claims_30d,
              locations |-> Cardinality(a.geographic_spread),
              fraud_indicators |-> names_of(found),
              fraud_score |-> fraud_score,
              risk_level |-> history_risk_level(fraud_score)]

\* lines 92-259: what the call returns for the rows `results`
check_claimant_history(results) ==
    IF results = <<>>
    THEN [op |-> "check_claimant_history", kind |-> "CLEAN",
          total_claims |-> 0, fraud_indicators |-> <<>>,
          fraud_score |-> 500, risk_level |-> "MINIMAL"]
    ELSE IF \E i \in DOMAIN results : results[i].days_ago = NoSize
    THEN [op |-> "check_claimant_history", kind |-> "ERROR"]
    ELSE LET a == analyze_history(results, new_history_analysis(results))
             found == history_indicators(a)
             fraud_score == min(double_sum(<<base_score>> \o terms_of(found)), score_cap)
         IN  [op |-> "check_claimant_history", kind |-> "ASSESSMENT",
              total_claims |-> a.total_claims,
              recent_claims_30d |-> a.recent_claims_30d,
              locations |-> Cardinality(a.geographic_spread),
              fraud_indicators |-> names_of(found),
              fraud_score |-> fraud_score,
              risk_level |-> history_risk_level(fraud_score)]

(***************************************************************************)
(* Dates.  A date string is the sequence of its fields and separators,     *)
(* "2025-01-15" being <<2025, "-", 1, "-", 15>>; the empty string is <<>>. *)
(***************************************************************************)
\* an argument that was not passed (None)
None == <<"None">>

\* calendar.isleap
is_leap(year) == year % 4 = 0 /\ (year % 100 # 0 \/ year % 400 = 0)

days_in_month(year, month) ==
    IF month = 2 THEN (IF is_leap(year) THEN 29 ELSE 28)
    ELSE IF month \in {4, 6, 9, 11} THEN 30 ELSE 31

\* datetime.strptime(s, "%Y-%m-%d") succeeds: the fields are a year, a month
\* and a day of that month, separated by "-"
parses(s) ==
    /\ Len(s) = 5
    /\ s[2] = "-" /\ s[4] = "-"
    /\ s[1] \in 1..9999
    /\ s[3] \in 1..12
    /\ s[5] \in 1..days_in_month(s[1], s[3])

\* the datetime strptime returns
strptime(s) == [year |-> s[1], month |-> s[3], day |-> s[5]]

RECURSIVE days_before_month(_, _)
days_before_month(year, month) ==
    IF month = 1 THEN 0
    ELSE days_before_month(year, month - 1) + days_in_month(year, month - 1)

\* datetime.toordinal: the days since 0001-01-01, that day being 1
toordinal(dt) ==
    LET y == dt.year - 1
    IN  y * 365 + y \div 4 - y \div 100 + y \div 400
        + days_before_month(dt.year, dt.month) + dt.day

\* (a - b).days
days_between(a, b) == toordinal(a) - toordinal(b)

\* datetime.weekday: 0 is Monday, 6 is Sunday
weekday(dt) == (toordinal(dt) + 6) % 7

\* the date strings of the calls: dates, and strings strptime rejects
DateStrings ==
    { <<2024, "-", 6, "-", 1>>, <<2024, "-", 8, "-", 20>>,
      <<2024, "-", 9, "-", 1>>, <<2024, "-", 9, "-", 9>>,
      <<2024, "-", 10, "-", 7>>, <<2024, "-", 12, "-", 1>>,
      <<2024, "-", 12, "-", 9>>, <<2024, "-", 12, "-", 15>>,
      <<2025, "-", 1, "-", 15>>, <<2025, "-", 1, "-", 16>>,
      <<2025, "-", 1, "-", 20>>,
      <<2025, "/", 1, "/", 15>>, <<2025, "-", 2, "-", 30>>,
      <<2025, "-", 13, "-", 1>>, <<>> }

(***************************************************************************)
(* analyze_incident_timing, lines 262-402.                                 *)
(***************************************************************************)
\* lines 291-302: "Reporting delay analysis"
reporting_delay_indicator_no_critical(reporting_delay) ==
    IF reporting_delay <= 0
    THEN <<[name |-> "Same-day reporting", term |-> 1000]>>
    ELSE IF reporting_delay > 30
    THEN <<[name |-> "Late reporting", term |-> 2000]>>
    ELSE IF reporting_delay > 14
    THEN <<[name |-> "Delayed reporting", term |-> 1000]>>
    ELSE <<>>

reporting_delay_indicator_from_fourteen(reporting_delay) ==
    IF reporting_delay < 0
    THEN <<[name |-> "CRITICAL: Claim reported before incident occurred",
            term |-> 8000]>>
    ELSE IF reporting_delay = 0
    THEN <<[name |-> "Same-day reporting", term |-> 1000]>>
    ELSE IF reporting_delay > 30
    THEN <<[name |-> "Late reporting", term |-> 2000]>>
    ELSE IF reporting_delay >= 14
    THEN <<[name |-> "Delayed reporting", term |-> 1000]>>
    ELSE <<>>

reporting_delay_indicator(reporting_delay) ==
    IF reporting_delay < 0
    THEN <<[name |-> "CRITICAL: Claim reported before incident occurred",
            term |-> 8000]>>
    ELSE IF reporting_delay = 0
    THEN <<[name |-> "Same-day reporting", term |-> 1000]>>
    ELSE IF reporting_delay > 30
    THEN <<[name |-> "Late reporting", term |-> 2000]>>
    ELSE IF reporting_delay > 14
    THEN <<[name |-> "Delayed reporting", term |-> 1000]>>
    ELSE <<>>

\* lines 309-317: "Policy timing analysis", the branches in the source's order
policy_timing_indicator(days_after_effective) ==
    IF days_after_effective < 0
    THEN <<[name |-> "CRITICAL: Incident before policy effective date",
            term |-> 9000]>>
    ELSE IF days_after_effective <= 30
    THEN <<[name |-> "Early claim", term |-> 2000]>>
    ELSE IF days_after_effective <= 7
    THEN <<[name |-> "Immediate claim", term |-> 3000]>>
    ELSE <<>>

\* lines 319-339: the weekend, Monday, first-of-month and December factors
timing_risk_factors(incident_dt, reported_dt, reporting_delay) ==
    (IF weekday(incident_dt) >= 5
     THEN <<[name |-> "Weekend incident", term |-> 500]>> ELSE <<>>)
    \o (IF weekday(reported_dt) = 0 /\ reporting_delay >= 3
        THEN <<[name |-> "Monday morning reporting pattern", term |-> 500]>>
        ELSE <<>>)
    \o (IF incident_dt.day = 1
        THEN <<[name |-> "First-of-month incident", term |-> 500]>> ELSE <<>>)
    \o (IF incident_dt.month = 12
        THEN <<[name |-> "December incident", term |-> 300]>> ELSE <<>>)

\* lines 344-360: "Risk level determination" of analyze_incident_timing
timing_risk_level(fraud_score) ==
    IF fraud_score >= high_threshold THEN "HIGH"
    ELSE IF fraud_score >= medium_threshold THEN "MEDIUM"
    ELSE IF fraud_score >= low_threshold THEN "LOW"
    ELSE "MINIMAL"

\* the except clauses of lines 389-402
timing_invalid_format == [op |-> "analyze_incident_timing", kind |-> "INVALID_FORMAT"]
timing_error == [op |-> "analyze_incident_timing", kind |-> "ERROR"]

\* "if policy_effective_date:", line 305: None and the empty string are not
\* looked at
given(s) == s # None /\ s # <<>>

\* lines 274-402: what the call returns
analyze_incident_timing(incident_date, reported_date, policy_effective_date) ==
    IF incident_date = None THEN timing_error
    ELSE IF ~parses(incident_date) THEN timing_invalid_format
    ELSE IF reported_date = None THEN timing_error
    ELSE IF ~parses(reported_date) THEN timing_invalid_format
    ELSE IF given(policy_effective_date) /\ ~parses(policy_effective_date)
    THEN timing_invalid_format
    ELSE
    LET incident_dt == strptime(incident_date)
        reported_dt == strptime(reported_date)
        reporting_delay == days_between(reported_dt, incident_dt)
        days_after_effective ==
            days_between(incident_dt, strptime(policy_effective_date))
        timing_indicators ==
            reporting_delay_indicator(reporting_delay)
            \o (IF given(policy_effective_date)
                THEN policy_timing_indicator(days_after_effective) ELSE <<>>)
        risk_factors == timing_risk_factors(incident_dt, reported_dt, reporting_delay)
        fraud_score ==
            min(double_sum(<<base_score>> \o terms_of(timing_indicators)
                           \o terms_of(risk_factors)), score_cap)
    IN  [op |-> "analyze_incident_timing", kind |-> "ASSESSMENT",
         reporting_delay |-> reporting_delay,
         days_after_effective |->
            IF given(policy_effective_date) THEN <<days_after_effective>> ELSE NoSize,
         timing_indicators |-> timing_indicators,
         risk_factors |-> risk_factors,
         fraud_score |-> fraud_score,
         risk_level |-> timing_risk_level(fraud_score)]

(***************************************************************************)
(* check_network_connections, lines 405-610.  A text argument is None, the *)
(* empty string <<>> or the one-element sequence of its text.  Of the rows *)
(* of the phone query only their number is read; of a row of the location  *)
(* query its claim_count; of a row of the date query its claims_same_date. *)
(***************************************************************************)
\* most rows of the location query and of the date query
MaxLocations == 2
MaxDates == 2

\* "provider_connections = 3  # Simulated", line 475
provider_connections == 3
\* "similar_phones = 2  # Simulated", line 545
similar_phones == 2

TextArguments(text) == { None, <<>>, <<text>> }

\* the numbers of rows the phone query can return (LIMIT 20)
PhoneResults == {0, 2, 3, 5, 6}

\* sequences over S of length up to n, largest first (ORDER BY ... DESC)
Descending(S, n) ==
    { q \in SeqsUpTo(S, n) : \A i \in 1..(Len(q) - 1) : q[i] >= q[i + 1] }

\* rows of the location query: COUNT(*) per city and state
LocationResults == Descending(1..4, MaxLocations)

\* rows of the date query: COUNT(*) per incident_date HAVING COUNT(*) > 1
TemporalResults == Descending(2..3, MaxDates)

\* lines 456-470: the connection and the pattern of the phone query's rows
phone_connections(phone_results) ==
    IF phone_results > 0
    THEN <<[type |-> "phone_number", count |-> phone_results,
            term |-> IF phone_results > 5 THEN 4000
                     ELSE IF phone_results > 2 THEN 2000 ELSE 0]>>
    ELSE <<>>

\* lines 473-484: the simulated provider connection
provider_connection ==
    <<[type |-> "service_provider", count |-> provider_connections,
       term |-> IF provider_connections > 10 THEN 3000 ELSE 0]>>

\* lines 505-516: the locations with more than one claim
RECURSIVE location_connections(_)
location_connections(location_results) ==
    IF location_results = <<>> THEN <<>>
    ELSE LET claim_count == Head(location_results)
         IN  (IF claim_count > 1
              THEN <<[type |-> "geographic_clustering", count |-> claim_count,
                      term |-> IF claim_count > 3 THEN 1500 ELSE 0]>>
              ELSE <<>>)
             \o location_connections(Tail(location_results))

\* lines 532-540: every row of the date query
temporal_connections(temporal_results) ==
    [i \in DOMAIN temporal_results |->
        [type |-> "temporal_clustering", count |-> temporal_results[i],
         term |-> 2000]]

\* lines 543-552: the simulated household connection
household_connection_no_term ==
    IF similar_phones > 0
    THEN <<[type |-> "potential_household", count |-> similar_phones,
            term |-> 0]>>
    ELSE <<>>

household_connection ==
    IF similar_phones > 0
    THEN <<[type |-> "potential_household", count |-> similar_phones,
            term |-> 1000]>>
    ELSE <<>>

\* the connections that added a term: the "network_score +=" of lines 467-552
RECURSIVE scoring_terms(_)
scoring_terms(connections) ==
    IF connections = <<>> THEN <<>>
    ELSE (IF Head(connections).term > 0 THEN <<Head(connections).term>> ELSE <<>>)
         \o scoring_terms(Tail(connections))

\* the connections that appended to suspicious_patterns (the household
\* connection appends none, lines 547-552)
RECURSIVE suspicious_patterns(_)
suspicious_patterns(connections) ==
    IF connections = <<>> THEN <<>>
    ELSE (IF Head(connections).term > 0
             /\ Head(connections).type # "potential_household"
          THEN <<Head(connections).type>> ELSE <<>>)
         \o suspicious_patterns(Tail(connections))

\* sum(conn["count"] for conn in connections_found), line 555
counts_of(connections) == [i \in DOMAIN connections |-> connections[i].count]

network_risk_level_strict(fraud_score) ==
    IF fraud_score > high_threshold THEN "HIGH"
    ELSE IF fraud_score > medium_threshold THEN "MEDIUM"
    ELSE IF fraud_score > low_threshold THEN "LOW"
    ELSE "MINIMAL"

\* lines 562-577: "Risk level determination" of check_network_connections
network_risk_level(fraud_score) ==
    IF fraud_score >= high_threshold THEN "HIGH"
    ELSE IF fraud_score >= medium_threshold THEN "MEDIUM"
    ELSE IF fraud_score >= low_threshold THEN "LOW"
    ELSE "MINIMAL"

\* lines 423-601: what the call returns when the store answers its queries;
\* network_score starts at 0.0 (line 427)
check_network_connections(claimant_phone, provider_info, witness_info, phone_results, location_results, temporal_results) ==
    LET connections_found ==
            (IF given(claimant_phone) THEN phone_connections(phone_results) ELSE <<>>)
            \o (IF given(provider_info) THEN provider_connection ELSE <<>>)
            \o location_connections(location_results)
            \o temporal_connections(temporal_results)
            \o (IF given(claimant_phone) THEN household_connection ELSE <<>>)
        total_connections == SumSeq(counts_of(connections_found))
        network_score ==
            min(double_sum(<<0>> \o scoring_terms(connections_found)
                           \o <<min(total_connections * 200, 2000)>>), score_cap)
    IN  [op |-> "check_network_connections", kind |-> "ASSESSMENT",
         connections_found |->
            [i \in DOMAIN connections_found |->
                [type |-> connections_found[i].type,
                 count |-> connections_found[i].count]],
         suspicious_patterns |-> suspicious_patterns(connections_found),
         total_connections |-> total_connections,
         fraud_score |-> network_score,
         risk_level |-> network_risk_level(network_score)]

\* the except clause of lines 603-610
network_error == [op |-> "check_network_connections", kind |-> "ERROR"]

(***************************************************************************)
(* calculate_ml_fraud_score, lines 613-772.  claim_data is a record of the *)
(* expected keys; a key that is not there holds <<>> (a number) or None (a *)
(* text); a description is given by its length.  The weighted score is in  *)
(* hundred-thousandths, the probability in millionths.                     *)
(***************************************************************************)
\* the weights of lines 661-669, in hundred-thousandths
weight_estimated_damage == 2
weight_claimant_age == -1000
weight_reporting_delay == 2000
weight_description_length == -100
weight_weekend_incident == 15000
weight_high_damage == 25000
weight_claim_type_encoded == 5000

\* claim_data.get("claimant_age", 35), line 629
default_claimant_age == 35
\* "features["estimated_damage"] > 10000", line 649
high_damage_above == 10000

\* str.lower, on the claim types of the calls
lower(claim_type) == IF claim_type = "THEFT" THEN "theft" ELSE claim_type

\* claim_type_map.get(claim_type, 0), lines 652-657
claim_type_encoded(claim_type) ==
    CASE claim_type = "collision" -> 1
      [] claim_type = "comprehensive" -> 2
      [] claim_type = "liability" -> 3
      [] claim_type = "fire" -> 4
      [] claim_type = "theft" -> 5
      [] claim_type = "vandalism" -> 6
      [] OTHER -> 0

\* 1 / (1 + math.exp(-x)) at x = -2.00, -1.95, ..., 2.00, in millionths
logistic_table ==
    <<
       119203, 124553, 130108, 135873, 141851, 148047, 154465, 161109, 167982,
       175086, 182426, 190002, 197816, 205870, 214165, 222700, 231475, 240489,
       249740, 259225, 268941, 278885, 289050, 299433, 310026, 320821, 331812,
       342990, 354344, 365864, 377541, 389361, 401312, 413382, 425557, 437823,
       450166, 462570, 475021, 487503, 500000, 512497, 524979, 537430, 549834,
       562177, 574443, 586618, 598688, 610639, 622459, 634136, 645656, 657010,
       668188, 679179, 689974, 700567, 710950, 721115, 731059, 740775, 750260,
       759511, 768525, 777300, 785835, 794130, 802184, 809998, 817574, 824914,
       832018, 838891, 845535, 851953, 858149, 864127, 869892, 875447, 880797 >>

\* the weighted scores between the entries of logistic_table
logistic_step == 5000
\* the entry of logistic_table for the weighted score 0
logistic_zero == 41
\* from 37.0 on, 1 + math.exp(-x) is 1.0 as a double; down to -37.0 the
\* probability is below 1e-16
logistic_saturation == 3700000
\* math.exp(-x) raises OverflowError below x = -709.78
exp_overflow_below == -70978000

\* line 675, "Apply sigmoid function to get probability"
fraud_probability(weighted_score) ==
    IF weighted_score >= logistic_saturation THEN 1000000
    ELSE IF weighted_score <= -logistic_saturation THEN 0
    ELSE logistic_table[weighted_score \div logistic_step + logistic_zero]

\* lines 711-727: "Risk level determination" of calculate_ml_fraud_score
ml_risk_level(fraud_score) ==
    IF fraud_score >= high_threshold THEN "HIGH"
    ELSE IF fraud_score >= medium_threshold THEN "MEDIUM"
    ELSE IF fraud_score >= low_threshold THEN "LOW"
    ELSE "MINIMAL"

\* the except clause of lines 765-772
ml_error == [op |-> "calculate_ml_fraud_score", kind |-> "ERROR"]

\* lines 627-657: the feature vector, once the dates have parsed
ml_features(claim_data) ==
    LET estimated_damage ==
            IF claim_data.estimated_damage = NoSize THEN 0
            ELSE claim_data.estimated_damage[1]
        both_dates == given(claim_data.incident_date) /\ given(claim_data.reported_date)
    IN  [estimated_damage |-> estimated_damage,
         claimant_age |-> IF claim_data.claimant_age = NoSize THEN default_claimant_age
                          ELSE claim_data.claimant_age[1],
         reporting_delay |->
            IF both_dates
            THEN days_between(strptime(claim_data.reported_date),
                              strptime(claim_data.incident_date))
            ELSE 0,
         description_length |-> IF claim_data.description = NoSize THEN 0
                                ELSE claim_data.description[1],
         weekend_incident |->
            IF given(claim_data.incident_date)
               /\ weekday(strptime(claim_data.incident_date)) >= 5
            THEN 1 ELSE 0,
         high_damage |-> IF estimated_damage > high_damage_above THEN 1 ELSE 0,
         claim_type_encoded |->
            IF claim_data.claim_type = None THEN claim_type_encoded("other")
            ELSE claim_type_encoded(lower(claim_data.claim_type[1]))]

\* line 672: sum(features[key] * weights[key] for key in features)
weighted_score(features) ==
    features.estimated_damage * weight_estimated_damage
    + features.claimant_age * weight_claimant_age
    + features.reporting_delay * weight_reporting_delay
    + features.description_length * weight_description_length
    + features.weekend_incident * weight_weekend_incident
    + features.high_damage * weight_high_damage
    + features.claim_type_encoded * weight_claim_type_encoded

\* the strptime calls of lines 638-646 that raise ValueError
ml_date_raises(claim_data) ==
    \/ /\ given(claim_data.incident_date) /\ given(claim_data.reported_date)
       /\ ~parses(claim_data.incident_date) \/ ~parses(claim_data.reported_date)
    \/ given(claim_data.incident_date) /\ ~parses(claim_data.incident_date)

\* lines 625-772: what the call returns; the score of line 678 is
\* 0.05 + probability * 0.9, in ten-thousandths
calculate_ml_fraud_score(claim_data) ==
    IF ml_date_raises(claim_data) THEN ml_error
    ELSE LET features == ml_features(claim_data)
             weighted == weighted_score(features)
         IN  IF weighted < exp_overflow_below THEN ml_error
             ELSE LET fraud_score ==
                          base_score + (fraud_probability(weighted) * 9 + 500) \div 1000
                  IN  [op |-> "calculate_ml_fraud_score", kind |-> "ASSESSMENT",
                       reporting_delay |-> features.reporting_delay,
                       weighted_score |-> weighted,
                       fraud_score |-> fraud_score,
                       risk_level |-> ml_risk_level(fraud_score)]

(***************************************************************************)
(* The scorers alone: each call is applied to its arguments and to the     *)
(* rows the record store answers with.                                     *)
(***************************************************************************)
HistoryRequests ==
    { [op |-> "check_claimant_history", results |-> h] : h \in Histories }

TimingRequests ==
    [op : {"analyze_incident_timing"},
     incident_date : DateStrings \cup {None},
     reported_date : DateStrings \cup {None},
     policy_effective_date : DateStrings \cup {None}]

NetworkRequests ==
    [op : {"check_network_connections"},
     claimant_phone : TextArguments("555-0123"),
     provider_info : TextArguments("Ace Auto Body"),
     witness_info : TextArguments("J. Doe"),
     phone_results : PhoneResults,
     location_results : LocationResults,
     temporal_results : TemporalResults]

ClaimData ==
    [estimated_damage : {NoSize, <<10000>>, <<25000>>, <<100000000>>},
     claimant_age : {NoSize, <<20>>, <<60>>, <<100000>>},
     description : {NoSize, <<50>>, <<100>>},
     claim_type : {None, <<"collision">>, <<"THEFT">>, <<"arson">>},
     incident_date : {None, <<>>, <<2025, "-", 1, "-", 20>>,
                      <<2025, "-", 1, "-", 25>>, <<2025, "/", 1, "/", 20>>},
     reported_date : {None, <<2025, "-", 1, "-", 15>>, <<2025, "-", 1, "-", 20>>,
                      <<2025, "-", 1, "-", 25>>, <<2025, "-", 2, "-", 30>>}]

MLRequests == [op : {"calculate_ml_fraud_score"}, claim_data : ClaimData]

FraudInit ==
    /\ store = [c \in ClaimIds |-> <<>>]
    /\ now = 0
    /\ collections = <<>>
    /\ pc = [p \in Callers |-> "idle"]
    /\ active_rags = [p \in Callers |-> NewRegistry]
    /\ local = [p \in Callers |-> NoLocal]
    /\ result = NoResult
    /\ registered = {}
    /\ readiness = NoReadiness
    /\ \/ request \in HistoryRequests
       \/ request \in TimingRequests
       \/ request \in NetworkRequests
       \/ request \in MLRequests

\* the except clause of lines 252-259
history_error == [op |-> "check_claimant_history", kind |-> "ERROR"]

\* one call of check_claimant_history; store_ok is whether the query of
\* line 92 was answered
CheckClaimantHistory ==
    /\ request.op = "check_claimant_history"
    /\ \E store_ok \in BOOLEAN :
         result' = IF store_ok THEN check_claimant_history(request.results)
                   ELSE history_error
    /\ UNCHANGED <<store, now, collections, pc, active_rags, local,
                   registered, readiness, request>>

\* one call of analyze_incident_timing
AnalyzeIncidentTiming ==
    /\ request.op = "analyze_incident_timing"
    /\ result' = analyze_incident_timing(request.incident_date,
                     request.reported_date, request.policy_effective_date)
    /\ UNCHANGED <<store, now, collections, pc, active_rags, local,
                   registered, readiness, request>>

\* one call of check_network_connections; store_ok is whether every query
\* was answered
CheckNetworkConnections ==
    /\ request.op = "check_network_connections"
    /\ \E store_ok \in BOOLEAN :
         result' =
            IF store_ok
            THEN check_network_connections(request.claimant_phone,
                     request.provider_info, request.witness_info,
                     request.phone_results, request.location_results,
                     request.temporal_results)
            ELSE network_error
    /\ UNCHANGED <<store, now, collections, pc, active_rags, local,
                   registered, readiness, request>>

\* one call of calculate_ml_fraud_score
CalculateMlFraudScore ==
    /\ request.op = "calculate_ml_fraud_score"
    /\ result' = calculate_ml_fraud_score(request.claim_data)
    /\ UNCHANGED <<store, now, collections, pc, active_rags, local,
                   registered, readiness, request>>

FraudNext ==
    \/ CheckClaimantHistory
    \/ AnalyzeIncidentTiming
    \/ CheckNetworkConnections
    \/ CalculateMlFraudScore

FraudSpec == FraudInit /\ [][FraudNext]_vars

(***************************************************************************)
(* The scorers' claims, under FraudSpec.                                   *)
(***************************************************************************)
\* the call of the request has returned
Returned == result.op = request.op

\* the call has returned a score and a tier
Scored == Returned /\ result.kind \in {"ASSESSMENT", "CLEAN"}

\* the call has returned an error result: no score, no tier
Failed == Returned /\ result.kind \in {"ERROR", "INVALID_FORMAT"}

\* C11: for each of the four scorers and every valid input, including
\* maximal inputs and empty external data, the reported fraud score lies in
\* [0.05, 1.0].
C11_ScoreWithinBounds ==
    Scored => (result.fraud_score >= 500 /\ result.fraud_score <= 10000)

\* the tier of a score: below 0.15 MINIMAL, from 0.15 LOW, from 0.40 MEDIUM,
\* from 0.70 HIGH
TierOf(score) ==
    IF score < 1500 THEN "MINIMAL"
    ELSE IF score < 4000 THEN "LOW"
    ELSE IF score < 7000 THEN "MEDIUM"
    ELSE "HIGH"

\* C12: all four scorers map a score to a tier by the same function: score
\* < 0.15 gives MINIMAL, 0.15 <= score < 0.40 LOW, 0.40 <= score < 0.70
\* MEDIUM, score >= 0.70 HIGH (so equal scores yield equal tiers across
\* scorers and a higher score never yields a lower tier).
C12_OneTierFunction ==
    Scored => result.risk_level = TierOf(result.fraud_score)

\* the network scorer returns a score on the boundary between LOW and MEDIUM
C12_Witness ==
    /\ Scored
    /\ result.op = "check_network_connections"
    /\ result.fraud_score = 4000
    /\ result.risk_level = "MEDIUM"

\* the rows of the history of the last 30 days
RecentRows == { i \in DOMAIN request.results : request.results[i].days_ago[1] <= 30 }

\* the history scorer has returned an assessment of rows of which at least
\* three are of the last 30 days
ThreeRecent ==
    /\ Scored
    /\ result.op = "check_claimant_history"
    /\ result.kind = "ASSESSMENT"
    /\ Cardinality(RecentRows) >= 3

\* C13: for every claim history that contains 3 claims in the last 30 days
\* all at the same city, the score of check_claimant_history is at least
\* 0.05 + 0.30 + 0.20 = 0.55.
C13_ThreeRecentSameCity ==
    (/\ ThreeRecent
     /\ \A i, j \in RecentRows : request.results[i].city = request.results[j].city)
        => result.fraud_score >= 5500

\* C13 as amended: a history with at least 3 claims in the last 30 days
\* scores at least 0.05 + 0.30 = 0.35, and at least 0.55 when it has more
\* than 3 claims and all its claims are at the same city and state.
C13_FrequencyAndClustering ==
    ThreeRecent =>
        /\ result.fraud_score >= 3500
        /\ (/\ Len(request.results) > 3
            /\ \A i, j \in DOMAIN request.results :
                  /\ request.results[i].city = request.results[j].city
                  /\ request.results[i].state = request.results[j].state)
              => result.fraud_score >= 5500

\* four claims at one location, three of them recent, scored with the
\* clustering term
C13_Witness ==
    /\ ThreeRecent
    /\ Len(request.results) = 4
    /\ result.locations = 1
    /\ \E i \in DOMAIN result.fraud_indicators :
          result.fraud_indicators[i] = "Geographic clustering"
    /\ result.fraud_score >= 5500

\* the timing scorer has returned an assessment
TimingScored == Scored /\ result.op = "analyze_incident_timing"

\* C14: for every analyze_incident_timing call with well-formed dates where
\* reported_date is earlier than incident_date, the score includes the
\* +0.80 critical penalty (score >= 0.85) and the tier is HIGH.
C14_ReportBeforeIncidentIsHigh ==
    (TimingScored /\ result.reporting_delay < 0) =>
        /\ result.fraud_score >= 8500
        /\ result.risk_level = "HIGH"
        /\ \E i \in DOMAIN result.timing_indicators :
              result.timing_indicators[i].term = 8000

\* a report before the incident, the incident long after the policy began,
\* and no risk factor
C14_Witness ==
    /\ TimingScored
    /\ result.reporting_delay < 0
    /\ result.days_after_effective # NoSize
    /\ result.days_after_effective[1] > 30
    /\ result.risk_factors = <<>>

\* what the policy timing analysis added to the score
PolicyTerm ==
    SumSeq(terms_of(SelectSeq(result.timing_indicators,
        LAMBDA x : x.name \in {"CRITICAL: Incident before policy effective date",
                               "Early claim", "Immediate claim"})))

\* C15: in analyze_incident_timing, when policy_effective_date is given and
\* the incident is d days after it: d < 0 adds 0.90, 0 <= d <= 7 adds 0.30,
\* 7 < d <= 30 adds 0.20, d > 30 adds nothing.
C15_PolicyTimingTerm ==
    (TimingScored /\ result.days_after_effective # NoSize) =>
        LET d == result.days_after_effective[1]
        IN  PolicyTerm = IF d < 0 THEN 9000
                         ELSE IF d <= 7 THEN 3000
                         ELSE IF d <= 30 THEN 2000
                         ELSE 0

\* the report came 1 to 14 days after the incident, and the incident more
\* than 30 days after the policy began (or no effective date was given)
OrdinaryTiming ==
    /\ TimingScored
    /\ result.reporting_delay >= 1
    /\ result.reporting_delay <= 14
    /\ \/ result.days_after_effective = NoSize
       \/ /\ result.days_after_effective # NoSize
          /\ result.days_after_effective[1] > 30

\* C16: for every analyze_incident_timing call with ordinary timing no
\* timing indicator is raised and the score stays below 0.40, so the tier is
\* MINIMAL or LOW whatever weekday, day of month and month.
C16_OrdinaryTimingStaysLow ==
    OrdinaryTiming =>
        /\ result.timing_indicators = <<>>
        /\ result.fraud_score < 4000
        /\ result.risk_level \in {"MINIMAL", "LOW"}

\* ordinary timing with every risk factor at once: a Sunday, first of
\* December, reported on a Monday
C16_Witness ==
    /\ OrdinaryTiming
    /\ Len(result.risk_factors) = 4
    /\ result.fraud_score = 2300

\* the network scorer has returned an assessment
NetworkScored == Scored /\ result.op = "check_network_connections"

\* P: 0.40 for more than 5 cross-policy matches of the phone, 0.20 for more
\* than 2
PhoneTerm ==
    IF ~given(request.claimant_phone) THEN 0
    ELSE IF request.phone_results > 5 THEN 4000
    ELSE IF request.phone_results > 2 THEN 2000
    ELSE 0

\* G: the same-policy locations with more than 3 claims
ClusteredLocations ==
    Cardinality({ i \in DOMAIN request.location_results :
                    request.location_results[i] > 3 })

\* T: the same-date multi-claim clusters
DateClusters == Len(request.temporal_results)

\* C17: the check_network_connections score equals
\* min(1.0, P + 0.15*G + 0.20*T + min(total_connections*0.02, 0.20)); no
\* other term contributes.
C17_NetworkFormula ==
    NetworkScored =>
        result.fraud_score =
            min(10000, PhoneTerm + 1500 * ClusteredLocations + 2000 * DateClusters
                       + min(result.total_connections * 200, 2000))

\* the sum of the counts of the connections: the phone matches, the
\* locations with more than one claim, the date clusters, and the simulated
\* 3 of a given provider and 2 of a given phone
TotalConnections ==
    (IF given(request.claimant_phone) THEN request.phone_results + 2 ELSE 0)
    + (IF given(request.provider_info) THEN 3 ELSE 0)
    + SumSeq(SelectSeq(request.location_results, LAMBDA c : c > 1))
    + SumSeq(request.temporal_results)

\* C17 as amended: the score equals min(1.0, P + 0.15*G + 0.20*T + H +
\* min(total_connections*0.02, 0.20)) where H is 0.10 when claimant_phone is
\* given, and total_connections counts the simulated connections too.
C17_NetworkFormulaWithHousehold ==
    NetworkScored =>
        /\ result.total_connections = TotalConnections
        /\ result.fraud_score =
            min(10000, PhoneTerm + 1500 * ClusteredLocations + 2000 * DateClusters
                       + (IF given(request.claimant_phone) THEN 1000 ELSE 0)
                       + min(TotalConnections * 200, 2000))

\* a phone with matches, a clustered location and a date cluster, scored
\* below the cap
C17_Witness ==
    /\ NetworkScored
    /\ PhoneTerm = 2000
    /\ ClusteredLocations = 1
    /\ DateClusters = 1
    /\ result.fraud_score < 10000

\* the date strings the call was given that strptime rejects
MalformedDates ==
    IF request.op = "analyze_incident_timing"
    THEN { d \in {request.incident_date, request.reported_date,
                  request.policy_effective_date} : given(d) /\ ~parses(d) }
    ELSE IF request.op = "calculate_ml_fraud_score"
    THEN { d \in {request.claim_data.incident_date,
                  request.claim_data.reported_date} : given(d) /\ ~parses(d) }
    ELSE {}

\* C19: analyze_incident_timing and calculate_ml_fraud_score return an
\* error result, and no score or tier, whenever any supplied date string is
\* not a valid YYYY-MM-DD date.
C19_MalformedDateFails ==
    (Returned /\ MalformedDates # {}) => Failed

\* every query of the call was answered with no rows
NoRows ==
    IF request.op = "check_claimant_history" THEN request.results = <<>>
    ELSE IF request.op = "check_network_connections"
    THEN /\ request.phone_results = 0
         /\ request.location_results = <<>>
         /\ request.temporal_results = <<>>
    ELSE FALSE

\* the zero-history result
ZeroHistory ==
    /\ result.total_claims = 0
    /\ result.fraud_indicators = <<>>
    /\ result.fraud_score = 500
    /\ result.risk_level = "MINIMAL"

\* C20: when the store returns no rows for every query,
\* check_claimant_history returns a non-error zero-history result (score
\* 0.05, MINIMAL) and check_network_connections a non-error zero-network
\* result (no connections, no suspicious patterns, MINIMAL) for every
\* combination of optional arguments.
C20_NoRowsGiveZeroResult ==
    (Returned /\ NoRows /\ result.kind # "ERROR") =>
        /\ Scored
        /\ result.op = "check_claimant_history" => ZeroHistory
        /\ result.op = "check_network_connections" =>
              /\ result.connections_found = <<>>
              /\ result.suspicious_patterns = <<>>
              /\ result.risk_level = "MINIMAL"

\* the simulated connections of the arguments
SimulatedConnections ==
    (IF given(request.provider_info)
     THEN <<[type |-> "service_provider", count |-> 3]>> ELSE <<>>)
    \o (IF given(request.claimant_phone)
        THEN <<[type |-> "potential_household", count |-> 2]>> ELSE <<>>)

\* C20 as amended: with no rows the zero-history result is as claimed; the
\* network result has no suspicious patterns and only the simulated
\* connections (3 of a given provider, 2 of a given phone), and its tier is
\* MINIMAL unless both a phone and a provider are given, when it is LOW.
C20_NoRowsGiveSimulatedOnly ==
    (Returned /\ NoRows /\ result.kind # "ERROR") =>
        /\ Scored
        /\ result.op = "check_claimant_history" => ZeroHistory
        /\ result.op = "check_network_connections" =>
              /\ result.connections_found = SimulatedConnections
              /\ result.suspicious_patterns = <<>>
              /\ result.risk_level =
                    IF given(request.provider_info) /\ given(request.claimant_phone)
                    THEN "LOW" ELSE "MINIMAL"

\* no rows, a phone and a provider: the network result is LOW
C20_Witness ==
    /\ Returned /\ NoRows
    /\ result.op = "check_network_connections"
    /\ result.kind = "ASSESSMENT"
    /\ Len(result.connections_found) = 2
    /\ result.risk_level = "LOW"

\* the history scorer has returned an assessment of a non-empty history
HistoryScored ==
    /\ Returned
    /\ result.op = "check_claimant_history"
    /\ result.kind = "ASSESSMENT"

\* the claims of the history that fall in the last `days` days
ClaimsWithin(days) ==
    Cardinality({ i \in DOMAIN request.results :
                    request.results[i].days_ago[1] <= days })

\* F: 0.30 for more than 2 claims in 30 days, otherwise 0.20 for more than 4
\* in 90 days
FrequencyTerm ==
    IF ClaimsWithin(30) > 2 THEN 3000
    ELSE IF ClaimsWithin(90) > 4 THEN 2000
    ELSE 0

\* the reporting delays the history records
KnownDelays ==
    LET known == SelectSeq(request.results, LAMBDA r : r.reporting_delay # NoSize)
    IN  [i \in DOMAIN known |-> known[i].reporting_delay[1]]

\* D: 0.15 for an average delay above 25 days, 0.10 for one below 1 day; the
\* average of a history that records no delay is 0
DelayTerm ==
    LET n == Len(KnownDelays)
        total == SumSeq(KnownDelays)
    IN  IF n = 0 THEN 1000
        ELSE IF total > 25 * n THEN 1500
        ELSE IF total < n THEN 1000
        ELSE 0

\* G: 0.20 for more than 3 claims at exactly one location
ClusteringTerm ==
    IF /\ Len(request.results) > 3
       /\ Cardinality({ <<request.results[i].city, request.results[i].state>> :
                           i \in DOMAIN request.results }) = 1
    THEN 2000 ELSE 0

\* the amounts the history records
KnownAmounts ==
    LET known == SelectSeq(request.results, LAMBDA r : r.estimated_damage # NoSize)
    IN  [i \in DOMAIN known |-> known[i].estimated_damage[1]]

\* A: 0.10 for an average amount per claim above 15000 (a claim that
\* records no amount counts as 0)
AmountTerm ==
    IF SumSeq(KnownAmounts) > 15000 * Len(request.results) THEN 1000 ELSE 0

\* the claims of the history of the type of its i-th claim
OfTypeOf(i) ==
    { j \in DOMAIN request.results :
        request.results[j].claim_type = request.results[i].claim_type }

\* T: 0.15 when the most common claim type covers at least 80% of the claims
TypeTerm ==
    IF \E i \in DOMAIN request.results :
          Cardinality(OfTypeOf(i)) * 10 >= Len(request.results) * 8
    THEN 1500 ELSE 0

\* C24: for every non-empty claim history the check_claimant_history score
\* equals min(1.0, 0.05 + F + D + G + A + T), with F, D, G, A and T the
\* frequency, reporting-delay, clustering, amount and claim-type penalties
\* computed from the rows of the history.
C24_HistoryFormula ==
    HistoryScored =>
        result.fraud_score =
            min(10000, 500 + FrequencyTerm + DelayTerm + ClusteringTerm
                       + AmountTerm + TypeTerm)

\* five claims of one type at one location, none in the last 30 days, all
\* reported late: the moderate frequency penalty applies, not the high one
C24_Witness ==
    /\ HistoryScored
    /\ FrequencyTerm = 2000
    /\ DelayTerm = 1500
    /\ ClusteringTerm = 2000
    /\ AmountTerm = 0
    /\ TypeTerm = 1500
    /\ result.fraud_score = 7500

(***************************************************************************)
(* The build's claims, under Spec.                                         *)
(***************************************************************************)
\* C27: the collection name create_dynamic_rag_engine derives from claim_id
\* is unique per claim: collections created for distinct claim_ids have
\* distinct names and distinct persist directories.
C27_CollectionNameUnique ==
    \A i, j \in DOMAIN collections :
        collections[i].claim_id # collections[j].claim_id =>
            /\ collections[i].name # collections[j].name
            /\ collections[i].persist_directory # collections[j].persist_directory

\* C28: for every registered handle, chunk_count equals the number of chunk
\* vectors actually added to the handle's collection, even when embedding or
\* collection.add failed part-way through some document.
C28_CountsMatchCollection ==
    \A h \in registered : h.chunk_count = collections[h.collection].vectors

\* the collection is that of a call still under way
BeingBuilt(i) == \E p \in Callers : HasBuilt(p) /\ local[p].collection = i

\* C29: no collection is left behind without a handle owning it: each
\* existing collection whose call has returned belongs to exactly one handle
\* stored by a successful call.
C29_NoCollectionWithoutHandle ==
    \A i \in DOMAIN collections :
        (collections[i].live /\ ~BeingBuilt(i)) =>
            Cardinality({ h \in registered : h.collection = i }) = 1

\* C30: a handle is never registered whose fetched document set fails the
\* four thresholds, even if the record store changed between the readiness
\* query and the fetch.
C30_FetchedSetIsReady ==
    [][\A p \in Callers :
          EnsureStore(p) => should_create_rag(local[p].fetched)[1]]_vars

(***************************************************************************)
(* Failures, sweeps and time, under Spec.                                  *)
(***************************************************************************)
\* the step ends a call of create_dynamic_rag_engine by caller p
EnsureReturns(p) == pc[p] # "idle" /\ pc'[p] = "idle"

\* an external call of the build of caller p has failed: a document of the
\* fetched list was not processed to the end
DocumentFailed(p) ==
    /\ "fetched" \in DOMAIN local[p]
    /\ local[p].processed_docs + Len(local[p].documents) < Len(local[p].fetched)

\* C21: every operation returns a structured result for every external-call
\* outcome: a failing external call is converted into exactly one error
\* result and no exception escapes; here, a create_dynamic_rag_engine call
\* during which an external call failed returns an error result.
C21_FailureGivesErrorResult ==
    [][\A p \in Callers :
          EnsureReturns(p) =>
              /\ result'.op = "create"
              /\ result'.kind \in {"CREATION_FAILED", "CREATION_ERROR", "CREATED"}
              /\ DocumentFailed(p) => result'.kind \in {"CREATION_FAILED", "CREATION_ERROR"}]_vars

\* the stored handle has expired
Expiring(h) == now > h.expires_at

external_call_timeout == 300

\* C23: no operation blocks indefinitely, each external call being bounded
\* by a timeout; here, a caller is never waiting for create_collection
\* (called right after line 254 took the time) longer than that timeout, in
\* seconds of an hour of 3600.
C23_ExternalCallBounded ==
    \A p \in Callers :
        pc[p] = "create" =>
            (now - local[p].engine_id) * 3600 <= external_call_timeout

\* C26: every handle is registered with expires_at = created_at + 24 hours,
\* and no cleanup_expired_rags sweep, however it interleaves with
\* create_dynamic_rag_engine, removes a handle less than 24 hours after it
\* was inserted, a handle a concurrent call has just inserted included.
C26_SweepSparesYoungHandles ==
    [][\A p \in Callers :
          Sweep(p) =>
              /\ \A h \in registered :
                    /\ h.expires_at = h.created_at + 24
                    /\ now < h.created_at + 24 =>
                          /\ h \in registered'
                          /\ collections'[h.collection] = collections[h.collection]
                          /\ expired_claims([c \in {h.claim_id} |-> h], now) = {}
              /\ active_rags' = active_rags]_vars

\* a sweep has returned while one stored handle has expired, another is less
\* than 24 hours old, and a concurrent call holds the handle it has just
\* inserted
C26_Witness ==
    /\ result.op = "cleanup"
    /\ \E h \in registered : Expiring(h)
    /\ \E h \in registered : now < h.created_at + 24
    /\ \E p \in Callers : pc[p] = "respond" /\ active_rags[p] # <<>>

====
